---------------------------- MODULE Spec2Model ----------------------------
(***************************************************************************)
(* Camera-path transformation commands of src-tauri/src/main.rs.           *)
(*                                                                         *)
(* Every command takes the serialized keyframe collection `data`, parses   *)
(* it into a HashMap<String, CameraKeyframe>, transforms it and serializes *)
(* the result.  The model keeps the collection the host holds (doc), the   *)
(* collection on disk (file) and the last two command calls with their     *)
(* input and result.                                                       *)
(*                                                                         *)
(* f64 arithmetic is modelled as binary floating point with MantBits       *)
(* significant bits, round-to-nearest-even, over integer multiples of the  *)
(* smallest positive value of the format (one "unit"); the exponent range  *)
(* upwards is not bounded, so a non-finite value arises only from the      *)
(* division by 0.0 in transform_speed.  Timestamps count units of          *)
(* 1/TicksPerSecond seconds.  0.0 and -0.0 are one value.                  *)
(*                                                                         *)
(* serde_json is modelled by what it does to the values: a finite f64 is   *)
(* written and read back unchanged, a non-finite f64 is written as null,   *)
(* and a null where an f64 is expected fails the parse.  The i32 rotation  *)
(* fields stay far from overflow within the bounds.  A HashMap is iterated *)
(* in an order chosen anew for every call.                                 *)
(***************************************************************************)
EXTENDS Integers, Sequences, FiniteSets, TLC

\* ------------------------------------------------------------------ bounds
MantBits == 4        \* significant bits of the model's floating-point format
MaxKeys == 3         \* keyframes of a collection: identifiers 1..MaxKeys
MaxSteps == 2        \* command calls of one run
TicksPerSecond == 4  \* timestamp units per second

\* ------------------------------------------------------------- f64 values
\* Non-finite f64 values and JSON null, as integers outside the finite range.
PosInf == 2 ^ 28
NegInf == 0 - 2 ^ 28
NaN == 2 ^ 28 + 1
Null == 2 ^ 28 + 2
\* f64::MAX and f64::MIN: beyond every finite value the model reaches.
F64Max == 2 ^ 27
F64Min == 0 - 2 ^ 27
I32Max == 2147483647
I32Min == (0 - 2147483647) - 1

IsFinite(v) == v \notin {PosInf, NegInf, NaN, Null}

Abs(n) == IF n < 0 THEN 0 - n ELSE n
Sign(n) == IF n < 0 THEN 0 - 1 ELSE 1

\* The least e >= 0 with p / (q * 2^e) < 2^MantBits  (p >= 0, q > 0).
RECURSIVE Expo(_, _, _)
Expo(p, q, e) ==
    IF p < q * 2 ^ (MantBits + e) THEN e ELSE Expo(p, q, e + 1)

\* p / q rounded to an integer, ties to even  (p >= 0, q > 0).
RoundHalfEven(p, q) ==
    LET f == p \div q
        r == p % q
    IN  IF 2 * r < q THEN f
        ELSE IF 2 * r > q THEN f + 1
        ELSE IF f % 2 = 0 THEN f ELSE f + 1

\* The floating-point value nearest to the rational p / q  (q > 0).
RoundQ(p, q) ==
    LET a == Abs(p)
        e == Expo(a, q, 0)
    IN  Sign(p) * RoundHalfEven(a, q * 2 ^ e) * 2 ^ e

Representable(n) == RoundQ(n, 1) = n

\* f64 +, -, and * / by a parameter given as the rational pn / pd.
FAdd(a, b) == RoundQ(a + b, 1)
FSub(a, b) == RoundQ(a - b, 1)
FNeg(a) == 0 - a
FMulBy(a, pn, pd) == RoundQ(a * pn, pd)
\* a / 0.0 is +-infinity, and NaN for a = 0.
FDivBy(a, pn, pd) ==
    IF pn = 0 THEN (IF a > 0 THEN PosInf ELSE IF a < 0 THEN NegInf ELSE NaN)
    ELSE IF pn > 0 THEN RoundQ(a * pd, pn)
    ELSE RoundQ((0 - a) * pd, 0 - pn)
FMin(a, b) == IF b < a THEN b ELSE a
FMax(a, b) == IF b > a THEN b ELSE a

\* f64::round: to the nearest integer, ties away from zero; v counts 1/q.
RoundAway(v, q) == Sign(v) * ((2 * Abs(v) + q) \div (2 * q))

\* `as i32`: saturating, NaN to 0.
AsI32(v) ==
    IF v = NaN THEN 0
    ELSE IF v = PosInf THEN I32Max
    ELSE IF v = NegInf THEN I32Min
    ELSE v

\* (keyframe.timestamp * 30.0).round() as i32
FrameFor(timestamp) ==
    IF ~IsFinite(timestamp) THEN AsI32(timestamp)
    ELSE AsI32(RoundAway(FMulBy(timestamp, 30, 1), TicksPerSecond))

\* ---------------------------------------------------------- sorting (Vec)
\* x inserted behind every element of the sorted s that is not greater.
RECURSIVE InsertTime(_, _)
InsertTime(s, x) ==
    IF s = <<>> THEN <<x>>
    ELSE IF s[Len(s)] <= x THEN Append(s, x)
    ELSE Append(InsertTime(SubSeq(s, 1, Len(s) - 1), x), s[Len(s)])

\* timestamps.sort_by(|a, b| a.partial_cmp(b).unwrap())
RECURSIVE SortTimes(_)
SortTimes(s) ==
    IF s = <<>> THEN <<>>
    ELSE InsertTime(SortTimes(SubSeq(s, 1, Len(s) - 1)), s[Len(s)])

\* The same for (key, keyframe) pairs compared by timestamp: sort_by is a
\* stable sort, equal timestamps keep the order they had in s.
RECURSIVE InsertKeyframe(_, _)
InsertKeyframe(s, p) ==
    IF s = <<>> THEN <<p>>
    ELSE IF s[Len(s)][2].timestamp <= p[2].timestamp THEN Append(s, p)
    ELSE Append(InsertKeyframe(SubSeq(s, 1, Len(s) - 1), p), s[Len(s)])

RECURSIVE SortKeyframes(_)
SortKeyframes(s) ==
    IF s = <<>> THEN <<>>
    ELSE InsertKeyframe(SortKeyframes(SubSeq(s, 1, Len(s) - 1)), s[Len(s)])

\* ------------------------------------------------------------- data model
Position(x, y, z) == [x |-> x, y |-> y, z |-> z]
Rotation(pitch, roll, yaw) == [pitch |-> pitch, roll |-> roll, yaw |-> yaw]
CameraKeyframe(fov, frame, position, rotation, timestamp, weight) ==
    [fov |-> fov, frame |-> frame, position |-> position,
     rotation |-> rotation, timestamp |-> timestamp, weight |-> weight]

\* CameraData = HashMap<String, CameraKeyframe>: a function on a set of keys.
EmptyData == [k \in {} |-> 0]

\* The orders a HashMap with these keys may be iterated in.
IterOrders(cd) ==
    {o \in [1 .. Cardinality(DOMAIN cd) -> DOMAIN cd] :
        \A i, j \in DOMAIN o : i # j => o[i] # o[j]}

\* serde_json writes a non-finite f64 as null.
JsonF64(v) == IF v \in {PosInf, NegInf, NaN} THEN Null ELSE v

\* serde_json::to_string_pretty(&camera_data)
to_string_pretty(cd) ==
    [k \in DOMAIN cd |->
        CameraKeyframe(JsonF64(cd[k].fov), cd[k].frame,
            Position(JsonF64(cd[k].position.x), JsonF64(cd[k].position.y),
                     JsonF64(cd[k].position.z)),
            cd[k].rotation, JsonF64(cd[k].timestamp), JsonF64(cd[k].weight))]

\* serde_json::from_str(&data) succeeds: no f64 field is null.
from_str_ok(data) ==
    \A k \in DOMAIN data :
        /\ data[k].fov # Null
        /\ data[k].position.x # Null
        /\ data[k].position.y # Null
        /\ data[k].position.z # Null
        /\ data[k].timestamp # Null
        /\ data[k].weight # Null

\* Result<String, String>
Ok(val) == [ok |-> TRUE, val |-> val, err |-> ""]
Err(msg) == [ok |-> FALSE, val |-> EmptyData, err |-> msg]
ParseError == Err("Failed to parse JSON")

\* ----------------------------------------------------- FOV transformations
transform_fov_add(data, add_value) ==
    IF ~from_str_ok(data) THEN ParseError
    ELSE Ok(to_string_pretty(
        [k \in DOMAIN data |->
            [data[k] EXCEPT !.fov = FAdd(@, add_value)]]))

transform_fov_multiply(data, mn, md) ==
    IF ~from_str_ok(data) THEN ParseError
    ELSE Ok(to_string_pretty(
        [k \in DOMAIN data |->
            [data[k] EXCEPT !.fov = FMulBy(@, mn, md)]]))

transform_fov_set(data, fov_value) ==
    IF ~from_str_ok(data) THEN ParseError
    ELSE Ok(to_string_pretty(
        [k \in DOMAIN data |-> [data[k] EXCEPT !.fov = fov_value]]))

\* ------------------------------------------------ position transformations
transform_position_offset(data, x, y, z) ==
    IF ~from_str_ok(data) THEN ParseError
    ELSE Ok(to_string_pretty(
        [k \in DOMAIN data |->
            [data[k] EXCEPT !.position =
                Position(FAdd(@.x, x), FAdd(@.y, y), FAdd(@.z, z))]]))

\* The scale factors are the rationals x / d, y / d, z / d.
transform_position_scale(data, x, y, z, d) ==
    IF ~from_str_ok(data) THEN ParseError
    ELSE Ok(to_string_pretty(
        [k \in DOMAIN data |->
            [data[k] EXCEPT !.position =
                Position(FMulBy(@.x, x, d), FMulBy(@.y, y, d),
                         FMulBy(@.z, z, d))]]))

\* ------------------------------------------------ rotation transformations
\* (deg as f64 * 182.04) as i32: the cast truncates toward zero.
DegreesToUnits(deg) == Sign(deg) * ((Abs(deg) * 18204) \div 100)

transform_rotation_offset(data, pitch, yaw, roll, use_degrees) ==
    LET p == IF use_degrees THEN DegreesToUnits(pitch) ELSE pitch
        y == IF use_degrees THEN DegreesToUnits(yaw) ELSE yaw
        r == IF use_degrees THEN DegreesToUnits(roll) ELSE roll
    IN  IF ~from_str_ok(data) THEN ParseError
        ELSE Ok(to_string_pretty(
            [k \in DOMAIN data |->
                [data[k] EXCEPT !.rotation =
                    Rotation(@.pitch + p, @.roll + r, @.yaw + y)]]))

\* --------------------------------------------------------- mirror operation
Axes == {"x", "y", "z"}

\* min_x = min_x.min(kf.position.x) over the keyframes, from f64::MAX.
RECURSIVE FoldMin(_, _)
FoldMin(S, acc) ==
    IF S = {} THEN acc
    ELSE LET v == CHOOSE v \in S : TRUE IN FoldMin(S \ {v}, FMin(acc, v))

RECURSIVE FoldMax(_, _)
FoldMax(S, acc) ==
    IF S = {} THEN acc
    ELSE LET v == CHOOSE v \in S : TRUE IN FoldMax(S \ {v}, FMax(acc, v))

MirrorBounds(cd, bounded) ==
    IF bounded
    THEN <<Position(FoldMin({cd[k].position.x : k \in DOMAIN cd}, F64Max),
                    FoldMin({cd[k].position.y : k \in DOMAIN cd}, F64Max),
                    FoldMin({cd[k].position.z : k \in DOMAIN cd}, F64Max)),
           Position(FoldMax({cd[k].position.x : k \in DOMAIN cd}, F64Min),
                    FoldMax({cd[k].position.y : k \in DOMAIN cd}, F64Min),
                    FoldMax({cd[k].position.z : k \in DOMAIN cd}, F64Min))>>
    ELSE <<Position(0, 0, 0), Position(0, 0, 0)>>

\* A bounded mirror that subtracts from center, not from 2.0 * center.
MirrorCoord_center(old, lo, hi, bounded) ==
    IF bounded THEN FSub(FDivBy(FAdd(lo, hi), 2, 1), old) ELSE FNeg(old)

\* One coordinate: 2.0 * center - old with center = (min + max) / 2.0, or -old.
MirrorCoord(old, lo, hi, bounded) ==
    IF bounded
    THEN LET center == FDivBy(FAdd(lo, hi), 2, 1)
         IN  FSub(FMulBy(center, 2, 1), old)
    ELSE FNeg(old)

\* The body of the loop over the keyframes, for a valid axis.
MirrorKeyframe(kf, axis, flip_pitch, flip_yaw, flip_roll, bounded, b) ==
    [kf EXCEPT
        !.position =
            Position(
                IF axis = "x"
                    THEN MirrorCoord(@.x, b[1].x, b[2].x, bounded) ELSE @.x,
                IF axis = "y"
                    THEN MirrorCoord(@.y, b[1].y, b[2].y, bounded) ELSE @.y,
                IF axis = "z"
                    THEN MirrorCoord(@.z, b[1].z, b[2].z, bounded) ELSE @.z),
        !.rotation =
            Rotation(IF flip_pitch THEN 0 - @.pitch ELSE @.pitch,
                     IF flip_roll THEN 0 - @.roll ELSE @.roll,
                     IF flip_yaw THEN 0 - @.yaw ELSE @.yaw)]

\* The axis is matched inside the loop: the first keyframe visited returns
\* the error, and a collection without keyframes never reaches the match.
transform_mirror(data, axis, flip_pitch, flip_yaw, flip_roll, bounded) ==
    LET b == MirrorBounds(data, bounded)
    IN  IF ~from_str_ok(data) THEN ParseError
        ELSE IF DOMAIN data # {} /\ axis \notin Axes
            THEN Err("Invalid axis: " \o axis)
        ELSE Ok(to_string_pretty(
            [k \in DOMAIN data |->
                MirrorKeyframe(data[k], axis, flip_pitch, flip_yaw,
                               flip_roll, bounded, b)]))

\* ------------------------------------------------------ time transformations
\* The multiplier is the rational mn / md.
transform_speed(data, mn, md) ==
    IF ~from_str_ok(data) THEN ParseError
    ELSE Ok(to_string_pretty(
        [k \in DOMAIN data |->
            LET t == FDivBy(data[k].timestamp, mn, md)
            IN  [data[k] EXCEPT !.timestamp = t, !.frame = FrameFor(t)]]))

\* A time offset that leaves frame as it was.
transform_time_offset_stale(data, offset_seconds) ==
    IF ~from_str_ok(data) THEN ParseError
    ELSE Ok(to_string_pretty(
        [k \in DOMAIN data |->
            [data[k] EXCEPT !.timestamp = FAdd(@, offset_seconds)]]))

transform_time_offset(data, offset_seconds) ==
    IF ~from_str_ok(data) THEN ParseError
    ELSE Ok(to_string_pretty(
        [k \in DOMAIN data |->
            LET t == FAdd(data[k].timestamp, offset_seconds)
            IN  [data[k] EXCEPT !.timestamp = t, !.frame = FrameFor(t)]]))

\* ----------------------------------------------------------- path operations
\* The timestamps in iteration order, not sorted.
Timestamps_unsorted(cd, order) ==
    [i \in 1 .. Len(order) |-> cd[order[i]].timestamp]

\* camera_data.values().map(|kf| kf.timestamp).collect(), then sorted;
\* order is the order the map is iterated in.
SortedTimestamps(cd, order) ==
    SortTimes([i \in 1 .. Len(order) |-> cd[order[i]].timestamp])

\* timestamps.first() / .last() .copied().unwrap_or(0.0)
FirstOr0(s) == IF s = <<>> THEN 0 ELSE s[1]
LastOr0(s) == IF s = <<>> THEN 0 ELSE s[Len(s)]

\* A reversal about max_time alone.
ReverseTime_nomin(t, min_time, max_time) == FSub(max_time, t)

\* keyframe.timestamp = max_time - keyframe.timestamp + min_time
ReverseTime(t, min_time, max_time) == FAdd(FSub(max_time, t), min_time)

\* A reversal that stores each keyframe under its timestamp: keyframes that
\* share one collapse into the first key.
reverse_path_bytime(data, order) ==
    LET timestamps == SortedTimestamps(data, order)
        max_time == LastOr0(timestamps)
        min_time == FirstOr0(timestamps)
        kept == {k \in DOMAIN data :
                    \A j \in DOMAIN data :
                        data[j].timestamp = data[k].timestamp => k <= j}
    IN  IF ~from_str_ok(data) THEN ParseError
        ELSE Ok(to_string_pretty(
            [k \in kept |->
                LET t == ReverseTime(data[k].timestamp, min_time, max_time)
                IN  [data[k] EXCEPT !.timestamp = t, !.frame = FrameFor(t)]]))

\* A reversal that takes min_time and max_time from the unsorted timestamps.
reverse_path_unsorted(data, order) ==
    LET timestamps == [i \in 1 .. Len(order) |-> data[order[i]].timestamp]
        max_time == LastOr0(timestamps)
        min_time == FirstOr0(timestamps)
    IN  IF ~from_str_ok(data) THEN ParseError
        ELSE Ok(to_string_pretty(
            [k \in DOMAIN data |->
                LET t == ReverseTime(data[k].timestamp, min_time, max_time)
                IN  [data[k] EXCEPT !.timestamp = t, !.frame = FrameFor(t)]]))

reverse_path(data, order) ==
    LET timestamps == SortedTimestamps(data, order)
        max_time == LastOr0(timestamps)
        min_time == FirstOr0(timestamps)
    IN  IF ~from_str_ok(data) THEN ParseError
        ELSE Ok(to_string_pretty(
            [k \in DOMAIN data |->
                LET t == ReverseTime(data[k].timestamp, min_time, max_time)
                IN  [data[k] EXCEPT !.timestamp = t, !.frame = FrameFor(t)]]))

\* i.saturating_sub(window_size / 2), for the 0-based index i.
WindowStart(i, window_size) ==
    IF i < window_size \div 2 THEN 0 ELSE i - window_size \div 2

\* A window that ends one keyframe early.
WindowEnd_short(i, window_size, len) ==
    IF i + window_size \div 2 < len THEN i + window_size \div 2 ELSE len

\* (i + window_size / 2 + 1).min(keyframes.len())
WindowEnd(i, window_size, len) ==
    IF i + window_size \div 2 + 1 < len
    THEN i + window_size \div 2 + 1 ELSE len

\* for j in start..end { avg += vals[j] }, from acc, over 0-based j.
RECURSIVE AccSum(_, _, _, _)
AccSum(vals, j, end, acc) ==
    IF j >= end THEN acc
    ELSE AccSum(vals, j + 1, end, FAdd(acc, vals[j + 1]))

\* The keyframe stored under keyframes[i + 1][1], for the 0-based index i.
SmoothKeyframe(keyframes, i, window_size) ==
    LET start == WindowStart(i, window_size)
        end == WindowEnd(i, window_size, Len(keyframes))
        count == end - start
        xs == [j \in 1 .. Len(keyframes) |-> keyframes[j][2].position.x]
        ys == [j \in 1 .. Len(keyframes) |-> keyframes[j][2].position.y]
        zs == [j \in 1 .. Len(keyframes) |-> keyframes[j][2].position.z]
        fovs == [j \in 1 .. Len(keyframes) |-> keyframes[j][2].fov]
    IN  [keyframes[i + 1][2] EXCEPT
            !.position = Position(FDivBy(AccSum(xs, start, end, 0), count, 1),
                                  FDivBy(AccSum(ys, start, end, 0), count, 1),
                                  FDivBy(AccSum(zs, start, end, 0), count, 1)),
            !.fov = FDivBy(AccSum(fovs, start, end, 0), count, 1)]

\* camera_data.into_iter().collect() in iteration order, sorted by timestamp.
SmoothOrder(cd, order) ==
    SortKeyframes([i \in 1 .. Len(order) |-> <<order[i], cd[order[i]]>>])

\* The index (1-based) of key k in the sorted keyframes.
IndexOf(keyframes, k) ==
    CHOOSE i \in 1 .. Len(keyframes) : keyframes[i][1] = k

smooth_path(data, window_size, order) ==
    LET keyframes == SmoothOrder(data, order)
    IN  IF ~from_str_ok(data) THEN ParseError
        ELSE Ok(to_string_pretty(
            [k \in DOMAIN data |->
                SmoothKeyframe(keyframes, IndexOf(keyframes, k) - 1,
                               window_size)]))

\* ----------------------------------------------------------------- utility
PathStats(keyframes, duration, min_time, max_time) ==
    [keyframes |-> keyframes, duration |-> duration,
     min_time |-> min_time, max_time |-> max_time]

NoStats == PathStats(0 - 1, Null, Null, Null)

\* json!({..}) writes a non-finite number as null.
get_path_stats(data, order) ==
    LET timestamps == SortedTimestamps(data, order)
        duration == FSub(LastOr0(timestamps), FirstOr0(timestamps))
        keyframe_count == Cardinality(DOMAIN data)
    IN  IF ~from_str_ok(data)
        THEN [ok |-> FALSE, err |-> "Failed to parse JSON", stats |-> NoStats]
        ELSE [ok |-> TRUE, err |-> "",
              stats |-> PathStats(keyframe_count, JsonF64(duration),
                                  JsonF64(FirstOr0(timestamps)),
                                  JsonF64(LastOr0(timestamps)))]

\* ------------------------------------------------------------------- state
VARIABLES
    file,    \* the collection on disk (load_camera_file / save_camera_file)
    doc,     \* the serialized collection the host holds and passes as `data`
    calls,   \* the last two command calls, oldest first
    steps,   \* command calls made so far
    timing   \* "none", "synced" after a successful time transform since the
             \* last load, "zero" once transform_speed was called with 0

vars == <<file, doc, calls, steps, timing>>

TransformOps ==
    {"transform_fov_add", "transform_fov_multiply", "transform_fov_set",
     "transform_position_offset", "transform_position_scale",
     "transform_rotation_offset", "transform_mirror", "transform_speed",
     "transform_time_offset", "reverse_path", "smooth_path"}

Call(op, args, r, stats) ==
    [op |-> op, args |-> args, inp |-> doc, ok |-> r.ok, out |-> r.val,
     err |-> r.err, stats |-> stats]

LastTwo(s) == IF Len(s) > 2 THEN SubSeq(s, Len(s) - 1, Len(s)) ELSE s

\* One command call: the host keeps the returned collection on success.
\* kind: "time" for a transform that rewrites timestamp and frame, "zero" for
\* transform_speed with multiplier 0, "other" for the rest.
Invoke(op, args, r, kind) ==
    /\ steps < MaxSteps
    /\ steps' = steps + 1
    /\ calls' = LastTwo(Append(calls, Call(op, args, r, NoStats)))
    /\ doc' = IF r.ok THEN r.val ELSE doc
    /\ timing' = IF timing = "zero" \/ kind = "zero" THEN "zero"
                 ELSE IF kind = "time" /\ r.ok THEN "synced" ELSE timing
    /\ UNCHANGED file

\* ------------------------------------------------------------ input values
FovValues == {3}
FovFactors == {<<3, 2>>}
Offsets == {<<3, 0, 0 - 1>>}
Scales == {<<0 - 2, 4, 1, 2>>}
RotationOffsets == {<<1, 0 - 1, 2>>}
MirrorAxes == Axes \cup {"w"}
Multipliers == {<<0, 1>>, <<3, 2>>}
TimeOffsets == {0 - 5}
WindowSizes == 0 .. MaxKeys

\* ----------------------------------------------------------------- actions
LoadCameraFile ==
    /\ doc' = file
    /\ timing' = "none"
    /\ UNCHANGED <<file, calls, steps>>

SaveCameraFile ==
    /\ file' = doc
    /\ UNCHANGED <<doc, calls, steps, timing>>

TransformFovAdd ==
    \E v \in FovValues :
        Invoke("transform_fov_add", <<v>>, transform_fov_add(doc, v), "other")

TransformFovMultiply ==
    \E m \in FovFactors :
        Invoke("transform_fov_multiply", m,
               transform_fov_multiply(doc, m[1], m[2]), "other")

TransformFovSet ==
    \E v \in FovValues :
        Invoke("transform_fov_set", <<v>>, transform_fov_set(doc, v), "other")

TransformPositionOffset ==
    \E o \in Offsets :
        Invoke("transform_position_offset", o,
               transform_position_offset(doc, o[1], o[2], o[3]), "other")

TransformPositionScale ==
    \E c \in Scales :
        Invoke("transform_position_scale", c,
               transform_position_scale(doc, c[1], c[2], c[3], c[4]), "other")

TransformRotationOffset ==
    \E o \in RotationOffsets, use_degrees \in BOOLEAN :
        Invoke("transform_rotation_offset", <<o, use_degrees>>,
               transform_rotation_offset(doc, o[1], o[2], o[3], use_degrees),
               "other")

\* axes: the axis names, flips: the <<flip_pitch, flip_yaw, flip_roll>>
\* triples to call with.
MirrorWith(axes, flips) ==
    \E axis \in axes, f \in flips, bounded \in BOOLEAN :
        Invoke("transform_mirror", <<axis, f[1], f[2], f[3], bounded>>,
               transform_mirror(doc, axis, f[1], f[2], f[3], bounded),
               "other")

TransformMirror == MirrorWith(MirrorAxes, BOOLEAN \X BOOLEAN \X BOOLEAN)

TransformMirrorValid == MirrorWith(Axes, {<<TRUE, FALSE, TRUE>>})

TransformSpeed ==
    \E m \in Multipliers :
        Invoke("transform_speed", m, transform_speed(doc, m[1], m[2]),
               IF m[1] = 0 THEN "zero" ELSE "time")

TransformTimeOffset ==
    \E o \in TimeOffsets :
        Invoke("transform_time_offset", <<o>>,
               transform_time_offset(doc, o), "time")

ReversePath ==
    \E order \in IterOrders(doc) :
        Invoke("reverse_path", <<>>, reverse_path(doc, order), "time")

SmoothPath ==
    \E w \in WindowSizes, order \in IterOrders(doc) :
        Invoke("smooth_path", <<w>>, smooth_path(doc, w, order), "other")

\* Read-only: the host keeps its collection.
GetPathStats ==
    \E order \in IterOrders(doc) :
        LET r == get_path_stats(doc, order)
        IN  /\ steps < MaxSteps
            /\ steps' = steps + 1
            /\ calls' = LastTwo(Append(calls,
                    Call("get_path_stats", <<>>,
                         [ok |-> r.ok, val |-> EmptyData, err |-> r.err],
                         r.stats)))
            /\ UNCHANGED <<file, doc, timing>>

\* ---------------------------------------------------------- specifications
\* The collections of keys 1..n, n <= MaxKeys, with keyframes drawn from S.
Collections(S) == UNION {[1 .. n -> S] : n \in 0 .. MaxKeys}

Start(paths) ==
    /\ file \in paths
    /\ doc = file
    /\ calls = <<>>
    /\ steps = 0
    /\ timing = "none"

\* A keyframe whose frame is out of step with its timestamp; keyframes k and
\* k + 2 share a timestamp.
SampleKeyframe(k) ==
    CameraKeyframe(6 + k, 7, Position(2 * k, 18, 0 - 3),
                   Rotation(1, 0 - 2, 3), IF k % 2 = 1 THEN 3 ELSE 18, 1)

\* Every transform and the statistics, on a loaded collection of 0..MaxKeys
\* keyframes.
Init == Start({[k \in 1 .. n |-> SampleKeyframe(k)] : n \in 0 .. MaxKeys})

Next ==
    \/ TransformFovAdd
    \/ TransformFovMultiply
    \/ TransformFovSet
    \/ TransformPositionOffset
    \/ TransformPositionScale
    \/ TransformRotationOffset
    \/ TransformMirrorValid
    \/ TransformSpeed
    \/ TransformTimeOffset
    \/ ReversePath
    \/ SmoothPath
    \/ GetPathStats

Spec == Init /\ [][Next]_vars

\* The commands that read or write timestamps, on varied timestamps.
InitTime ==
    Start(Collections({CameraKeyframe(6, FrameFor(ts), Position(2, 18, 0 - 3),
                                      Rotation(1, 0 - 2, 3), ts, 1) :
                          ts \in {0 - 6, 1, 3, 18}}))

NextTime ==
    \/ TransformSpeed
    \/ TransformTimeOffset
    \/ ReversePath
    \/ GetPathStats

SpecTime == InitTime /\ [][NextTime]_vars

\* The commands that write positions, on varied positions.
InitMirror ==
    Start(Collections({CameraKeyframe(6, 0, p, Rotation(1, 0 - 2, 3), 0, 1) :
                          p \in {Position(2, 36, 0 - 6), Position(36, 2, 4),
                                 Position(0 - 6, 4, 36)}}))

NextMirror ==
    \/ TransformPositionOffset
    \/ TransformPositionScale
    \/ TransformMirrorValid

SpecMirror == InitMirror /\ [][NextMirror]_vars

\* transform_mirror with every axis name and every combination of flags.
NextAxis == TransformMirror

SpecAxis == InitMirror /\ [][NextAxis]_vars

\* Keyframe k of a path whose keyframes 1 and 2, 3 and 4, ... share a
\* timestamp.
TiedKeyframe(k, x) ==
    CameraKeyframe(IF x = 1 THEN 6 ELSE 9, FrameFor(2 * ((k + 1) \div 2) - 1),
                   Position(x, 2 * x, 0 - x), Rotation(1, 0 - 2, 3),
                   2 * ((k + 1) \div 2) - 1, 1)

\* Smoothing, on varied positions and fov, ties included.
InitSmooth ==
    Start(UNION {{[k \in 1 .. n |-> TiedKeyframe(k, xs[k])] :
                     xs \in [1 .. n -> {1, 18}]} : n \in 0 .. MaxKeys})

NextSmooth == SmoothPath

SpecSmooth == InitSmooth /\ [][NextSmooth]_vars

\* Smoothing and the statistics between loads and saves of the file.
NextFile ==
    \/ LoadCameraFile
    \/ SaveCameraFile
    \/ SmoothPath
    \/ GetPathStats

SpecFile == InitSmooth /\ [][NextFile]_vars

\* ------------------------------------------------------------------ claims
Times(cd) == {cd[k].timestamp : k \in DOMAIN cd}
Least(S) == CHOOSE v \in S : \A u \in S : v <= u
Greatest(S) == CHOOSE v \in S : \A u \in S : v >= u
IsCall(i, op) == i \in 1 .. Len(calls) /\ calls[i].op = op
\* Calls 1 and 2 are successful calls of op, the second on the first's output.
Twice(op) ==
    /\ Len(calls) = 2
    /\ calls[1].op = op /\ calls[2].op = op
    /\ calls[1].ok /\ calls[2].ok
    /\ calls[2].inp = calls[1].out

InSync(cd) == \A k \in DOMAIN cd : cd[k].frame = FrameFor(cd[k].timestamp)

\* C1: after a sequence of successful transforms that contains a
\* transform_speed (multiplier # 0), transform_time_offset or reverse_path call
\* (and no transform_speed call with multiplier 0, which is C4's case), every
\* keyframe of the collection has frame = round(timestamp * 30), whatever the
\* frames were at the start and whatever transforms followed.
C1_FrameSync == timing = "synced" => InSync(doc)

\* A time transform on frames that were out of step, then another transform.
C1_Witness ==
    /\ timing = "synced"
    /\ Len(calls) = 2
    /\ calls[1].op \in {"transform_speed", "transform_time_offset",
                        "reverse_path"}
    /\ calls[2].op \in {"transform_mirror", "smooth_path",
                        "transform_position_scale"}
    /\ calls[1].ok /\ calls[2].ok
    /\ Cardinality(DOMAIN doc) = MaxKeys
    /\ \A k \in DOMAIN doc :
          calls[1].inp[k].frame # FrameFor(calls[1].inp[k].timestamp)

\* C2: every successful transform call returns a collection with the key set
\* of its input, so the host's collection keeps the key set it was loaded
\* with, also when keyframes share a timestamp.
C2_KeySetPreserved ==
    /\ \A i \in 1 .. Len(calls) :
          (calls[i].op \in TransformOps /\ calls[i].ok)
              => DOMAIN calls[i].out = DOMAIN calls[i].inp
    /\ DOMAIN doc = DOMAIN file

\* reverse_path then smooth_path on three keyframes, two with one timestamp.
C2_Witness ==
    /\ Len(calls) = 2
    /\ calls[1].op = "reverse_path" /\ calls[2].op = "smooth_path"
    /\ calls[1].ok /\ calls[2].ok
    /\ Cardinality(DOMAIN doc) = MaxKeys
    /\ Cardinality(Times(calls[1].inp)) = 2

\* C3: transform_mirror with an axis outside {x, y, z} fails with an error
\* naming the axis, for every collection and all flags.
C3_InvalidAxisFails ==
    \A i \in 1 .. Len(calls) :
        (calls[i].op = "transform_mirror" /\ calls[i].args[1] \notin Axes)
            => (~calls[i].ok
                /\ calls[i].err = "Invalid axis: " \o calls[i].args[1])

\* C4: transform_speed with multiplier 0 is rejected and returns no
\* collection (stated for the collections that have a keyframe to divide).
C4_ZeroSpeedRejected ==
    \A i \in 1 .. Len(calls) :
        (/\ calls[i].op = "transform_speed"
         /\ calls[i].args[1] = 0
         /\ calls[i].inp # EmptyData)
            => ~calls[i].ok

\* Every subtraction and addition of two reverse_path passes over cd is exact.
ExactReverse(cd) ==
    \A t \in Times(cd) :
        /\ Representable(Greatest(Times(cd)) - t)
        /\ Representable(Greatest(Times(cd)) - t + Least(Times(cd)))
        /\ Representable(t - Least(Times(cd)))

\* C5 as claimed: reverse_path twice returns every keyframe as it was,
\* timestamp and frame included.
C5_ReverseInvolution ==
    Twice("reverse_path") => calls[2].out = calls[1].inp

\* C5, amended: reverse_path twice changes nothing but timestamp and frame,
\* leaves frame = round(timestamp * 30), and returns the original timestamps
\* when the f64 subtractions and additions are exact.
C5_ReverseTwice ==
    Twice("reverse_path") =>
        /\ \A k \in DOMAIN calls[1].inp :
              calls[2].out[k] =
                  [calls[1].inp[k] EXCEPT
                      !.timestamp = calls[2].out[k].timestamp,
                      !.frame = FrameFor(calls[2].out[k].timestamp)]
        /\ ExactReverse(calls[1].inp) =>
              \A k \in DOMAIN calls[1].inp :
                  calls[2].out[k].timestamp = calls[1].inp[k].timestamp

\* Two exact reversals of three keyframes with different timestamps.
C5_Witness ==
    /\ Twice("reverse_path")
    /\ ExactReverse(calls[1].inp)
    /\ Cardinality(Times(calls[1].inp)) = MaxKeys
    /\ calls[1].out # calls[1].inp

Coord(p, axis) == IF axis = "x" THEN p.x ELSE IF axis = "y" THEN p.y ELSE p.z
Coords(cd, axis) == {Coord(cd[k].position, axis) : k \in DOMAIN cd}

\* Calls 1 and 2 are successful bounded mirrors about the same valid axis,
\* the second on the first's output.
MirrorTwice ==
    /\ Twice("transform_mirror")
    /\ calls[1].args[1] \in Axes
    /\ calls[2].args[1] = calls[1].args[1]
    /\ calls[1].args[5] /\ calls[2].args[5]

\* Every f64 operation of a bounded mirror of cd about axis is exact.
ExactMirror(cd, axis) ==
    LET sum == Least(Coords(cd, axis)) + Greatest(Coords(cd, axis))
    IN  /\ Representable(sum)
        /\ FMulBy(FDivBy(sum, 2, 1), 2, 1) = sum
        /\ \A c \in Coords(cd, axis) : Representable(sum - c)

\* C6 as claimed: two bounded mirrors about one axis return every keyframe's
\* original position.
C6_MirrorInvolution ==
    MirrorTwice =>
        \A k \in DOMAIN calls[1].inp :
            calls[2].out[k].position = calls[1].inp[k].position

\* C6, amended: a mirror never changes the coordinates of the other two axes,
\* and two bounded mirrors about one axis return every keyframe's original
\* position when the f64 operations (min + max, its half and double, and
\* each subtraction) are exact.
C6_MirrorTwice ==
    /\ \A i \in 1 .. Len(calls) :
          (calls[i].op = "transform_mirror" /\ calls[i].ok) =>
              \A k \in DOMAIN calls[i].inp, a \in Axes \ {calls[i].args[1]} :
                  Coord(calls[i].out[k].position, a)
                      = Coord(calls[i].inp[k].position, a)
    /\ (MirrorTwice /\ calls[1].inp # EmptyData
            /\ ExactMirror(calls[1].inp, calls[1].args[1])) =>
          \A k \in DOMAIN calls[1].inp :
              calls[2].out[k].position = calls[1].inp[k].position

\* Two exact bounded mirrors of an asymmetric path that moved its keyframes.
C6_Witness ==
    /\ MirrorTwice
    /\ Cardinality(Coords(calls[1].inp, calls[1].args[1])) = MaxKeys
    /\ ExactMirror(calls[1].inp, calls[1].args[1])
    /\ \A k \in DOMAIN calls[1].inp :
          calls[1].out[k].position # calls[1].inp[k].position

\* The sum of vals[lo + 1 .. hi] added up from 0.0 in index order.
RECURSIVE SumTo(_, _, _)
SumTo(vals, lo, hi) ==
    IF hi <= lo THEN 0 ELSE FAdd(SumTo(vals, lo, hi - 1), vals[hi])

Max2(a, b) == IF a > b THEN a ELSE b
Min2(a, b) == IF a < b THEN a ELSE b

\* o lists the keys of cd by ascending timestamp.
IsSortedOrder(cd, o) ==
    \A i, j \in DOMAIN o : i < j => cd[o[i]].timestamp <= cd[o[j]].timestamp

\* out holds, under the key at index i of o, the window means of cd.
IsWindowMean(cd, out, o, w) ==
    \A i \in 0 .. Len(o) - 1 :
        LET lo == Max2(0, i - w \div 2)
            hi == Min2(Len(o), i + w \div 2 + 1)
            n == hi - lo
            xs == [j \in 1 .. Len(o) |-> cd[o[j]].position.x]
            ys == [j \in 1 .. Len(o) |-> cd[o[j]].position.y]
            zs == [j \in 1 .. Len(o) |-> cd[o[j]].position.z]
            fs == [j \in 1 .. Len(o) |-> cd[o[j]].fov]
        IN  /\ n > 0
            /\ out[o[i + 1]].position.x = RoundQ(SumTo(xs, lo, hi), n)
            /\ out[o[i + 1]].position.y = RoundQ(SumTo(ys, lo, hi), n)
            /\ out[o[i + 1]].position.z = RoundQ(SumTo(zs, lo, hi), n)
            /\ out[o[i + 1]].fov = RoundQ(SumTo(fs, lo, hi), n)

\* C7: smooth_path stores, under the key at index i of the keyframes sorted
\* by timestamp, the mean of position and fov over the indices
\* [max(0, i - w/2), min(len, i + w/2 + 1)), a window that is never empty;
\* window sizes 0 and 1 leave position and fov as they were, and the empty
\* collection is returned empty.
C7_SmoothWindowMean ==
    \A c \in 1 .. Len(calls) :
        (calls[c].op = "smooth_path" /\ from_str_ok(calls[c].inp)) =>
            /\ calls[c].ok
            /\ DOMAIN calls[c].out = DOMAIN calls[c].inp
            /\ \E o \in IterOrders(calls[c].inp) :
                  /\ IsSortedOrder(calls[c].inp, o)
                  /\ IsWindowMean(calls[c].inp, calls[c].out, o,
                                  calls[c].args[1])
            /\ calls[c].args[1] \in {0, 1} =>
                  \A k \in DOMAIN calls[c].inp :
                      /\ calls[c].out[k].position = calls[c].inp[k].position
                      /\ calls[c].out[k].fov = calls[c].inp[k].fov

\* A window of three over three keyframes whose positions differ: the middle
\* window is whole, the two edge windows are short.
C7_Witness ==
    /\ IsCall(1, "smooth_path")
    /\ calls[1].ok
    /\ calls[1].args[1] = 3
    /\ Cardinality(DOMAIN calls[1].inp) = 3
    /\ Cardinality(Times(calls[1].inp)) = 2
    /\ Cardinality(Coords(calls[1].inp, "x")) = 2
    /\ calls[1].out # calls[1].inp

\* C8: get_path_stats returns the number of keys, the least and the greatest
\* timestamp and their difference (not negative), whatever order the map is
\* iterated in, all 0 for the empty collection, and no error for a
\* collection that parses.
C8_PathStats ==
    \A c \in 1 .. Len(calls) :
        (calls[c].op = "get_path_stats" /\ from_str_ok(calls[c].inp)) =>
            /\ calls[c].ok
            /\ calls[c].stats.keyframes = Cardinality(DOMAIN calls[c].inp)
            /\ calls[c].stats.duration >= 0
            /\ calls[c].stats.duration
                  = FSub(calls[c].stats.max_time, calls[c].stats.min_time)
            /\ IF calls[c].inp = EmptyData
               THEN calls[c].stats = PathStats(0, 0, 0, 0)
               ELSE /\ calls[c].stats.min_time = Least(Times(calls[c].inp))
                    /\ calls[c].stats.max_time = Greatest(Times(calls[c].inp))

\* The statistics of three keyframes with three timestamps.
C8_Witness ==
    /\ IsCall(Len(calls), "get_path_stats")
    /\ calls[Len(calls)].ok
    /\ calls[Len(calls)].stats.keyframes = MaxKeys
    /\ Cardinality(Times(calls[Len(calls)].inp)) = MaxKeys
    /\ calls[Len(calls)].stats.duration > 0

\* C9: two smooth_path calls with the same collection and window size return
\* the same collection.
C9_SmoothDeterministic ==
    (/\ Len(calls) = 2
     /\ calls[1].op = "smooth_path" /\ calls[2].op = "smooth_path"
     /\ calls[1].inp = calls[2].inp
     /\ calls[1].args = calls[2].args)
        => (calls[1].ok = calls[2].ok /\ calls[1].out = calls[2].out)

\* Every subtraction and addition of one reverse_path pass over cd is exact.
ExactReverseOnce(cd) ==
    \A t \in Times(cd) :
        /\ Representable(Greatest(Times(cd)) - t)
        /\ Representable(Greatest(Times(cd)) - t + Least(Times(cd)))

SameButTime(a, b) ==
    /\ a.position = b.position
    /\ a.rotation = b.rotation
    /\ a.fov = b.fov
    /\ a.weight = b.weight

\* C10 as claimed: reverse_path strictly flips the order of any two
\* timestamps, keeps the least and the greatest timestamp, and keeps every
\* keyframe's position, rotation, fov and weight.
C10_ReverseFlipsOrder ==
    \A c \in 1 .. Len(calls) :
        (calls[c].op = "reverse_path" /\ calls[c].ok
            /\ calls[c].inp # EmptyData) =>
            /\ \A a, b \in DOMAIN calls[c].inp :
                  (calls[c].inp[a].timestamp < calls[c].inp[b].timestamp)
                      <=> (calls[c].out[a].timestamp
                              > calls[c].out[b].timestamp)
            /\ Least(Times(calls[c].out)) = Least(Times(calls[c].inp))
            /\ Greatest(Times(calls[c].out)) = Greatest(Times(calls[c].inp))
            /\ \A k \in DOMAIN calls[c].inp :
                  SameButTime(calls[c].out[k], calls[c].inp[k])

\* C10, amended: reverse_path never keeps two timestamps in their order (an
\* earlier keyframe ends no earlier than a later one, equal stay equal),
\* keeps the least timestamp and every keyframe's position, rotation, fov and
\* weight; when its f64 subtractions and additions are exact the flip is
\* strict and the greatest timestamp is kept too.
C10_ReverseOrder ==
    \A c \in 1 .. Len(calls) :
        (calls[c].op = "reverse_path" /\ calls[c].ok
            /\ calls[c].inp # EmptyData) =>
            /\ \A a, b \in DOMAIN calls[c].inp :
                  /\ (calls[c].inp[a].timestamp < calls[c].inp[b].timestamp)
                        => (calls[c].out[a].timestamp
                               >= calls[c].out[b].timestamp)
                  /\ (calls[c].inp[a].timestamp = calls[c].inp[b].timestamp)
                        => (calls[c].out[a].timestamp
                               = calls[c].out[b].timestamp)
            /\ Least(Times(calls[c].out)) = Least(Times(calls[c].inp))
            /\ \A k \in DOMAIN calls[c].inp :
                  SameButTime(calls[c].out[k], calls[c].inp[k])
            /\ ExactReverseOnce(calls[c].inp) =>
                  /\ \A a, b \in DOMAIN calls[c].inp :
                        (calls[c].inp[a].timestamp
                            < calls[c].inp[b].timestamp)
                            <=> (calls[c].out[a].timestamp
                                    > calls[c].out[b].timestamp)
                  /\ Greatest(Times(calls[c].out))
                        = Greatest(Times(calls[c].inp))

\* An exact reversal of three keyframes with three timestamps.
C10_Witness ==
    /\ IsCall(1, "reverse_path")
    /\ calls[1].ok
    /\ Cardinality(Times(calls[1].inp)) = MaxKeys
    /\ ExactReverseOnce(calls[1].inp)
    /\ Least(Times(calls[1].inp)) # 0

=============================================================================
